---- MODULE Spec2Model ----
(***************************************************************************)
(* Model of blender_addon_dev.py: one run of main(), i.e. directory and    *)
(* name detection, packaging, and the install pipeline of                  *)
(* auto_install_to_blender (kill, uninstall, install, startup hook,        *)
(* launch).  Everything outside the script (file system, process table,    *)
(* the headless host subprocesses) is an input chosen with \E.             *)
(***************************************************************************)
EXTENDS Integers, Sequences, FiniteSets, TLC

\* ---------------------------------------------------------------- bounds
\* largest number of process ids one pgrep call reports
MaxPids == 2
\* largest number of immediate subdirectories of the cwd that are add-ons
MaxSubdirs == 2
\* longest manifest name, in characters
MaxNameLen == 2
\* largest number of entries of a bl_info dictionary
MaxEntries == 3

\* ------------------------------------------------------------- constants
\* process ids of other processes, and the process id of the running tool
OtherPids == 1..MaxPids
SelfPid == MaxPids + 1
Pids == {SelfPid} \cup OtherPids

Systems == {"Darwin", "Linux", "Windows", "Other"}
Stages == <<"KILL", "UNINSTALL", "INSTALL", "STARTUP_HOOK", "LAUNCH">>
HostStages == {"UNINSTALL", "INSTALL", "STARTUP_HOOK"}

\* outcome of os.kill(pid, SIGTERM) for a pid other than the tool's own
KillOutcomes == {"ok", "lookup", "error"}
\* how a headless host subprocess that was started ends
HostEnds == {"exit0", "nonzero", "timeout"}

VARIABLES
    args,          \* parsed command line: [addon_name, addon_dir, install, launch]
    system,        \* platform.system()
    pc,            \* position of the run
    addon_dir,     \* main's addon_dir
    addon_name,    \* main's addon_name (where it came from)
    zip_path,      \* result of create_addon_zip
    blender_exe,   \* result of find_blender_executable
    stages,        \* pipeline stages entered so far, in order
    outcome,       \* per host stage: how its subprocess.run ended
    captured,      \* the latest host run: its stage, and which pipes carried text
    running,       \* host processes started by the tool and still alive
    issued,        \* kinds of termination the reaper issued
    killed_count,  \* kill_blender_processes' counter
    slept,         \* time.sleep(1) was executed in the reaper
    kill_result,   \* return value of kill_blender_processes
    log,           \* what the tool printed, in order
    success,       \* return value of auto_install_to_blender
    exit_code,     \* return value of main
    unit_in,       \* function-level runs: the function applied and its inputs
    unit_out       \* function-level runs: what the function returned and did

vars == <<args, system, pc, addon_dir, addon_name,
          zip_path, blender_exe, stages, outcome, captured, running,
          issued, killed_count, slept, kill_result, log, success, exit_code,
          unit_in, unit_out>>

fsVars == <<args, system, unit_in, unit_out>>
reaperVars == <<issued, killed_count, slept, kill_result>>
hostVars == <<outcome, captured, running>>

NoCapture == [out |-> FALSE, err |-> FALSE]
Captures == [out : BOOLEAN, err : BOOLEAN]
\* subprocess.run's result (or the TimeoutExpired it raised) for a stage
Result(stage, cap) == [stage |-> stage, out |-> cap.out, err |-> cap.err]

\* no function-level run
NoUnit == [op |-> "none"]

\* ------------------------------------------------------------------ Init
\* argparse: -n/-d are optional strings, -i/-l are store_true flags.
\* addon_dir argument: "None" (omitted), "addon" (a directory with an
\* __init__.py), "noinit" (exists, no __init__.py), "missing" (no such path).
ArgSpace ==
    [addon_name : {"None", "given"},
     addon_dir  : {"None", "addon", "noinit", "missing"},
     install    : BOOLEAN,
     launch     : BOOLEAN]

Init ==
    /\ args \in ArgSpace
    /\ system \in Systems
    /\ pc = "main"
    /\ addon_dir = "None"
    /\ addon_name = "None"
    /\ zip_path = "None"
    /\ blender_exe = "None"
    /\ stages = <<>>
    /\ outcome = [s \in HostStages |-> "none"]
    /\ captured = Result("None", NoCapture)
    /\ running = {}
    /\ issued = {}
    /\ killed_count = 0
    /\ slept = FALSE
    /\ kill_result = "None"
    /\ log = <<>>
    /\ success = "None"
    /\ exit_code = "None"
    /\ unit_in = NoUnit
    /\ unit_out = NoUnit

\* ------------------------------------------------------------------ main
\* auto_detect_addon_dir: the cwd if it qualifies, else the only qualifying
\* subdirectory, else None
auto_detect_addon_dir_First(cwdIs, n) ==
    IF cwdIs THEN "cwd"
    ELSE IF n >= 1 THEN "sub"
    ELSE "None"

auto_detect_addon_dir(cwdIs, n) ==
    IF cwdIs THEN "cwd"
    ELSE IF n = 1 THEN "sub"
    ELSE "None"

\* the directory has an __init__.py
HasInit(d) == d \in {"cwd", "sub", "addon"}

\* detect_addon_name_from_bl_info: None without __init__.py, the normalized
\* manifest name when bl_info names one, else the directory name
detect_addon_name_from_bl_info(d, manifest) ==
    IF ~HasInit(d) THEN "None"
    ELSE IF manifest THEN "manifest"
    ELSE "dirname"

\* create_addon_zip: None unless the directory exists and has __init__.py
create_addon_zip(d) ==
    IF d = "missing" THEN "None"
    ELSE IF ~HasInit(d) THEN "None"
    ELSE "zip"

\* main, line 668: return 0 if success else 1
main_exit_Inverted(ok) == IF ok = "True" THEN "1" ELSE "0"

main_exit_Zero(ok) == "0"

main_exit(ok) == IF ok = "True" THEN "0" ELSE "1"

\* what auto_detect_addon_dir (line 110) and main (lines 632-635) print for
\* a cwd that qualifies or not and n qualifying visible subdirectories
AutoDetectMessages(cwdIs, n) ==
    IF auto_detect_addon_dir(cwdIs, n) # "None" THEN <<>>
    ELSE (IF ~cwdIs /\ n > 1
          THEN <<"Multiple add-on directories found">>
          ELSE <<>>)
         \o <<"Could not auto-detect add-on directory">>

\* main, lines 627-641: the add-on directory
MainAddonDir ==
    /\ pc = "main"
    /\ IF args.addon_dir = "None"
       THEN \E cwd_is_addon \in BOOLEAN, sub_addons \in 0..MaxSubdirs :
            LET d == auto_detect_addon_dir(cwd_is_addon, sub_addons) IN
            /\ addon_dir' = d
            /\ log' = log \o AutoDetectMessages(cwd_is_addon, sub_addons)
            /\ IF d = "None"
               THEN /\ exit_code' = "1"
                    /\ pc' = "done"
               ELSE /\ exit_code' = exit_code
                    /\ pc' = "name"
       ELSE /\ addon_dir' = args.addon_dir
            /\ IF args.addon_dir = "missing"
               THEN /\ log' = Append(log, "Add-on directory not found")
                    /\ exit_code' = "1"
                    /\ pc' = "done"
               ELSE /\ log' = log
                    /\ exit_code' = exit_code
                    /\ pc' = "name"
    /\ UNCHANGED <<fsVars, addon_name, zip_path, blender_exe, stages, hostVars,
                   reaperVars, success>>

\* main, lines 643-651: the add-on name
MainAddonName ==
    /\ pc = "name"
    /\ \E has_manifest \in BOOLEAN :
         addon_name' =
           IF args.addon_name # "None" THEN args.addon_name
           ELSE LET n == detect_addon_name_from_bl_info(addon_dir, has_manifest) IN
                IF n = "None" THEN "dirname" ELSE n
    /\ pc' = "package"
    /\ UNCHANGED <<fsVars, addon_dir, zip_path, blender_exe, stages, hostVars,
                   reaperVars, log, success, exit_code>>

\* main, line 665: the pipeline runs only under --install
InstallRequested_OrLaunch == args.install \/ args.launch

InstallRequested == args.install

\* main, lines 653-678: packaging, then the install pipeline only on --install
MainPackage ==
    /\ pc = "package"
    /\ zip_path' = create_addon_zip(addon_dir)
    /\ IF zip_path' = "None"
       THEN /\ log' = Append(log, "Packaging failed!")
            /\ exit_code' = "1"
            /\ pc' = "done"
       ELSE IF InstallRequested
       THEN /\ log' = Append(log, "Successfully created")
            /\ exit_code' = exit_code
            /\ pc' = "locate"
       ELSE /\ log' = log \o <<"Successfully created", "To install manually">>
            /\ exit_code' = "0"
            /\ pc' = "done"
    /\ UNCHANGED <<fsVars, addon_dir, addon_name, blender_exe, stages, hostVars,
                   reaperVars, success>>

\* ------------------------------------------------- auto_install_to_blender
\* find_blender_executable: shutil.which first, then the common paths
find_blender_executable(in_path, in_common) ==
    IF in_path THEN "which"
    ELSE IF in_common THEN "common"
    ELSE "None"

\* where auto_install_to_blender goes after the lookup, lines 453-466: it
\* returns False without a host executable, else goes on to the reaper
AfterLocate_Continue(exe) == "kill"

AfterLocate(exe) == IF exe = "None" THEN "done" ELSE "kill"

\* auto_install_to_blender, lines 445-463: locate the host; without it the
\* function returns False and main returns 1
FindBlender ==
    /\ pc = "locate"
    /\ \E in_path \in BOOLEAN, in_common \in BOOLEAN :
         /\ blender_exe' = find_blender_executable(in_path, in_common)
         /\ IF blender_exe' = "None"
            THEN /\ log' = log \o <<"Blender executable not found!",
                                    "Please install manually">>
                 /\ success' = "False"
                 /\ exit_code' = main_exit(success')
            ELSE /\ log' = Append(log, "Found Blender at")
                 /\ success' = success
                 /\ exit_code' = exit_code
         /\ pc' = AfterLocate(blender_exe')
    /\ UNCHANGED <<fsVars, addon_dir, addon_name, zip_path, stages, hostVars,
                   reaperVars>>

\* ----------------------------------------------------------- the reaper
\* sequences of distinct pids, as pgrep prints them
PidSeqs ==
    {q \in UNION {[1..n -> Pids] : n \in 1..MaxPids} :
        \A i, j \in 1..Len(q) : i # j => q[i] # q[j]}

\* the loop over pgrep's pids, lines 184-193 and 209-218: SIGTERM to each;
\* ProcessLookupError is passed over, any other error is a warning.  SIGTERM
\* to the tool's own pid ends the tool at once (no handler is installed).
RECURSIVE KillLoop(_, _, _)
KillLoop(pids, f, acc) ==
    IF pids = <<>> THEN acc
    ELSE LET pid == Head(pids) IN
         IF pid = SelfPid
         THEN [acc EXCEPT !.died = TRUE]
         ELSE IF f[pid] = "ok"
         THEN KillLoop(Tail(pids), f,
                       [acc EXCEPT !.count = @ + 1,
                                   !.msgs = Append(@, "Killed Blender process")])
         ELSE IF f[pid] = "lookup"
         THEN KillLoop(Tail(pids), f, acc)
         ELSE KillLoop(Tail(pids), f,
                       [acc EXCEPT !.msgs = Append(@, "Warning: Could not kill process")])

KillStart == [count |-> 0, msgs |-> <<>>, died |-> FALSE]

\* lines 233-241: the summary, the one-second pause, return True
KillEpilogue(count, kinds, msgs) ==
    [count |-> count, issued |-> kinds, died |-> FALSE,
     slept |-> count > 0,
     msgs |-> msgs \o (IF count > 0 THEN <<"Killed Blender process(es)">>
                       ELSE <<"No Blender processes found running">>),
     result |-> "True"]

\* lines 243-245: any exception inside the try block
KillExcept(count, kinds, msgs) ==
    [count |-> count, issued |-> kinds, died |-> FALSE,
     slept |-> FALSE,
     msgs |-> Append(msgs, "Warning: Error killing Blender processes"),
     result |-> "False"]

\* kill_blender_processes, lines 165-245.  pg: how pgrep ended ("raise": it
\* could not be run), pids: what it listed, f: how os.kill ends per pid,
\* cmd: how pkill / taskkill ended ("ran" or "raise").
kill_blender_processes(sys, pg, pids, f, cmd) ==
    IF sys \in {"Darwin", "Linux"}
    THEN IF pg = "raise" THEN KillExcept(0, {}, <<>>)
         ELSE LET r == IF pg = "match" THEN KillLoop(pids, f, KillStart)
                       ELSE KillStart
                  kinds == IF r.count > 0 \/ r.died THEN {"signal"} ELSE {}
              IN IF r.died
                 THEN [count |-> r.count, issued |-> kinds,
                       died |-> TRUE, slept |-> FALSE, msgs |-> r.msgs,
                       result |-> "None"]
                 ELSE IF cmd = "raise"
                 THEN KillExcept(r.count, kinds, r.msgs)
                 ELSE KillEpilogue(r.count, kinds \cup {"sweep"}, r.msgs)
    ELSE IF sys = "Windows"
    THEN IF cmd = "raise" THEN KillExcept(0, {}, <<>>)
         ELSE KillEpilogue(1, {"taskkill"}, <<>>)
    ELSE KillEpilogue(0, {}, <<>>)

\* auto_install_to_blender, lines 465-466: the KILL stage.  The return value
\* of kill_blender_processes is not looked at.
KillBlenderProcesses ==
    /\ pc = "kill"
    /\ stages' = Append(stages, "KILL")
    /\ \E pg \in {"raise", "nomatch", "match"}, pids \in PidSeqs,
          f \in [OtherPids -> KillOutcomes], cmd \in {"ran", "raise"} :
         LET r == kill_blender_processes(system, pg, pids, f, cmd) IN
         /\ issued' = r.issued
         /\ killed_count' = r.count
         /\ slept' = r.slept
         /\ kill_result' = r.result
         /\ log' = Append(log, "Killing Blender processes...") \o r.msgs
         /\ pc' = IF r.died THEN "terminated" ELSE "uninstall"
         /\ exit_code' = IF r.died THEN "SIGTERM" ELSE exit_code
    /\ UNCHANGED <<fsVars, addon_dir, addon_name, zip_path, blender_exe,
                   hostVars, success>>

\* ------------------------------------------------------ host script stages
\* subprocess.run(..., timeout=...), lines 314-319, 424-429, 533-538: it
\* returns or raises only after its child has ended; at the timeout it kills
\* the child and waits for it before raising TimeoutExpired
HostEnded_LeakOnTimeout(run, stage, end) ==
    IF end = "timeout" THEN run ELSE run \ {stage}

HostEnded(run, stage, end) == run \ {stage}

\* what a stage prints of the captured text: stdout only, and only if any
EchoStdout(stage, cap) ==
    IF cap.out THEN <<"stdout:" \o stage>> ELSE <<>>

\* uninstall_addon, lines 313-334: what is printed after subprocess.run.
\* end is how the run ended ("oserror": the host could not be started)
UninstallMessages(end, cap) ==
    IF end = "exit0"
    THEN <<"Uninstall completed">> \o EchoStdout("UNINSTALL", cap)
    ELSE IF end = "nonzero"
    THEN <<"Uninstall had warnings (this is usually OK)">>
         \o EchoStdout("UNINSTALL", cap)
    ELSE <<"Uninstall error (may not be installed): " \o end>>

\* where the pipeline goes after UNINSTALL, lines 469-471: uninstall_addon
\* returns True on every path and the caller does not look at it
AfterUninstall_Fatal(end) == IF end = "exit0" THEN "install" ELSE "done"

AfterUninstall(end) == "install"

\* uninstall_addon, lines 248-319: the UNINSTALL stage starts its host
UninstallAddonRun ==
    /\ pc = "uninstall"
    /\ stages' = Append(stages, "UNINSTALL")
    /\ \E spawned \in BOOLEAN :
         IF spawned
         THEN /\ running' = running \cup {"UNINSTALL"}
              /\ log' = Append(log, "Step 1: Uninstalling existing add-on...")
              /\ pc' = "uninstall_wait"
              /\ UNCHANGED <<outcome, captured>>
         ELSE /\ outcome' = [outcome EXCEPT !["UNINSTALL"] = "oserror"]
              /\ log' = Append(log, "Step 1: Uninstalling existing add-on...")
                        \o UninstallMessages("oserror", NoCapture)
              /\ pc' = AfterUninstall("oserror")
              /\ UNCHANGED <<captured, running>>
    /\ UNCHANGED <<fsVars, addon_dir, addon_name, zip_path, blender_exe,
                   reaperVars, success, exit_code>>

\* uninstall_addon, lines 314-334, and its caller, lines 469-471: the host
\* ended or was stopped at the 15 s timeout; the stage's return value (always
\* True) is not looked at and INSTALL follows
UninstallAddonReturn ==
    /\ pc = "uninstall_wait"
    /\ \E end \in HostEnds, cap \in Captures :
         /\ outcome' = [outcome EXCEPT !["UNINSTALL"] = end]
         /\ captured' = Result("UNINSTALL", cap)
         /\ log' = log \o UninstallMessages(end, cap)
         /\ pc' = AfterUninstall(end)
         /\ running' = HostEnded(running, "UNINSTALL", end)
    /\ UNCHANGED <<fsVars, addon_dir, addon_name, zip_path, blender_exe,
                   stages, reaperVars, success, exit_code>>

\* auto_install_to_blender, lines 540-541 and 567-581: what is printed after
\* the INSTALL stage's subprocess.run
InstallMessages_Merged(end, cap) ==
    IF end = "exit0"
    THEN <<"Successfully installed and enabled">>
    ELSE IF end \in {"nonzero", "timeout"}
    THEN <<"Installation failed!", "Blender output:", "stdout:INSTALL">>
         \o (IF cap.err THEN <<"Errors:", "stderr:INSTALL">> ELSE <<>>)
    ELSE <<"Error running Blender: " \o end>>

InstallMessages(end, cap) ==
    IF end = "exit0"
    THEN <<"Successfully installed and enabled">>
    ELSE IF end = "nonzero"
    THEN <<"Installation failed!", "Blender output:", "stdout:INSTALL">>
         \o (IF cap.err THEN <<"Errors:", "stderr:INSTALL">> ELSE <<>>)
    ELSE IF end = "timeout"
    THEN <<"Installation timed out">>
    ELSE <<"Error running Blender: " \o end>>

\* where the pipeline goes after INSTALL, lines 540-581: on to the startup
\* hook after exit code 0, else return False
AfterInstall_Continue(end) == "hook"

AfterInstall_Retry(end) ==
    IF end = "exit0" THEN "hook"
    ELSE IF end = "timeout" THEN "install"
    ELSE "done"

AfterInstall(end) == IF end = "exit0" THEN "hook" ELSE "done"

\* auto_install_to_blender, lines 471-538: the INSTALL stage starts its host
InstallRun ==
    /\ pc = "install"
    /\ stages' = Append(stages, "INSTALL")
    /\ \E spawned \in BOOLEAN :
         IF spawned
         THEN /\ running' = running \cup {"INSTALL"}
              /\ log' = log \o <<"Step 3: Installing new add-on...",
                                 "Running Blender to install add-on...">>
              /\ pc' = "install_wait"
              /\ UNCHANGED <<outcome, captured, success, exit_code>>
         ELSE /\ outcome' = [outcome EXCEPT !["INSTALL"] = "oserror"]
              /\ log' = log \o <<"Step 3: Installing new add-on...",
                                 "Running Blender to install add-on...">>
                            \o InstallMessages("oserror", NoCapture)
              /\ pc' = AfterInstall("oserror")
              /\ success' = "False"
              /\ exit_code' = main_exit(success')
              /\ UNCHANGED <<captured, running>>
    /\ UNCHANGED <<fsVars, addon_dir, addon_name, zip_path, blender_exe,
                   reaperVars>>

\* auto_install_to_blender, lines 533-581: the host ended or was stopped at
\* the 30 s timeout
InstallReturn ==
    /\ pc = "install_wait"
    /\ \E end \in HostEnds, cap \in Captures :
         /\ outcome' = [outcome EXCEPT !["INSTALL"] = end]
         /\ captured' = Result("INSTALL", cap)
         /\ log' = log \o InstallMessages(end, cap)
         /\ pc' = AfterInstall(end)
         /\ IF AfterInstall(end) = "done"
            THEN success' = "False" /\ exit_code' = main_exit(success')
            ELSE UNCHANGED <<success, exit_code>>
         /\ running' = HostEnded(running, "INSTALL", end)
    /\ UNCHANGED <<fsVars, addon_dir, addon_name, zip_path, blender_exe,
                   stages, reaperVars>>

\* install_startup_script, lines 423-442: what is printed after subprocess.run
StartupMessages(end, cap) ==
    IF end = "exit0"
    THEN EchoStdout("STARTUP_HOOK", cap)
    ELSE IF end = "nonzero"
    THEN <<"Startup script installation had warnings">>
         \o EchoStdout("STARTUP_HOOK", cap)
    ELSE <<"Could not install startup script: " \o end>>

\* where the pipeline goes after STARTUP_HOOK, lines 544-547:
\* install_startup_script returns True on every path and the caller does not
\* look at it
AfterStartupHook_Fatal(end) == IF end = "exit0" THEN "launch" ELSE "done"

AfterStartupHook(end) == "launch"

\* install_startup_script, lines 337-429: the STARTUP_HOOK stage starts its host
InstallStartupScriptRun ==
    /\ pc = "hook"
    /\ stages' = Append(stages, "STARTUP_HOOK")
    /\ \E spawned \in BOOLEAN :
         IF spawned
         THEN /\ running' = running \cup {"STARTUP_HOOK"}
              /\ log' = Append(log, "Step 4: Installing startup script...")
              /\ pc' = "hook_wait"
              /\ UNCHANGED <<outcome, captured>>
         ELSE /\ outcome' = [outcome EXCEPT !["STARTUP_HOOK"] = "oserror"]
              /\ log' = Append(log, "Step 4: Installing startup script...")
                        \o StartupMessages("oserror", NoCapture)
              /\ pc' = AfterStartupHook("oserror")
              /\ UNCHANGED <<captured, running>>
    /\ UNCHANGED <<fsVars, addon_dir, addon_name, zip_path, blender_exe,
                   reaperVars, success, exit_code>>

\* install_startup_script, lines 424-442, and its caller, line 544: the host
\* ended or was stopped at the 15 s timeout; the return value (always True) is
\* not looked at
InstallStartupScriptReturn ==
    /\ pc = "hook_wait"
    /\ \E end \in HostEnds, cap \in Captures :
         /\ outcome' = [outcome EXCEPT !["STARTUP_HOOK"] = end]
         /\ captured' = Result("STARTUP_HOOK", cap)
         /\ log' = log \o StartupMessages(end, cap)
         /\ pc' = AfterStartupHook(end)
         /\ running' = HostEnded(running, "STARTUP_HOOK", end)
    /\ UNCHANGED <<fsVars, addon_dir, addon_name, zip_path, blender_exe,
                   stages, reaperVars, success, exit_code>>

\* main, lines 666-667, and line 547: launch_blender is the --launch flag
LaunchRequested_Always == TRUE

LaunchRequested == args.launch

\* auto_install_to_blender, lines 546-566, and main, line 668: the optional
\* launch with Popen (never waited for), then return True and exit code 0.
\* On Darwin Popen starts "open -a Blender", which may or may not bring up
\* the host; elsewhere the spawned process is the host.
LaunchBlender ==
    /\ pc = "launch"
    /\ IF LaunchRequested
       THEN /\ stages' = Append(stages, "LAUNCH")
            /\ \E spawned \in BOOLEAN, started \in BOOLEAN :
                 /\ system # "Darwin" => started
                 /\ IF spawned
                    THEN /\ running' = IF started
                                       THEN running \cup {"LAUNCHED"}
                                       ELSE running
                         /\ log' = log \o <<"Step 5: Launching Blender...",
                                            "Blender launched!">>
                    ELSE /\ running' = running
                         /\ log' = log \o <<"Step 5: Launching Blender...",
                                            "Could not launch Blender",
                                            "Please open Blender manually">>
       ELSE /\ log' = Append(log, "You can now open Blender and use the add-on.")
            /\ UNCHANGED <<stages, running>>
    /\ success' = "True"
    /\ exit_code' = main_exit(success')
    /\ pc' = "done"
    /\ UNCHANGED <<fsVars, addon_dir, addon_name, zip_path, blender_exe,
                   outcome, captured, reaperVars>>

\* the launched host is an independent process: it ends whenever its user
\* closes it
LaunchedHostExits ==
    /\ "LAUNCHED" \in running
    /\ running' = running \ {"LAUNCHED"}
    /\ UNCHANGED <<fsVars, pc, addon_dir, addon_name, zip_path, blender_exe,
                   stages, outcome, captured, reaperVars, log, success, exit_code>>

\* ------------------------------------------------------------------ Next
Next ==
    \/ MainAddonDir
    \/ MainAddonName
    \/ MainPackage
    \/ FindBlender
    \/ KillBlenderProcesses
    \/ UninstallAddonRun
    \/ UninstallAddonReturn
    \/ InstallRun
    \/ InstallReturn
    \/ InstallStartupScriptRun
    \/ InstallStartupScriptReturn
    \/ LaunchBlender
    \/ LaunchedHostExits

Spec == Init /\ [][Next]_vars

\* ---------------------------------------------------------------- claims
Range(q) == {q[i] : i \in 1..Len(q)}
Printed(m) == m \in Range(log)
Entered(stage) == stage \in Range(stages)
Terminal == pc \in {"done", "terminated"}
Failures == {"nonzero", "timeout", "oserror"}
InstallFailed == outcome["INSTALL"] \in Failures
UninstallFailed == outcome["UNINSTALL"] \in Failures

\* C1: whenever the INSTALL stage has failed (non-zero exit, timeout, or the
\* host could not be run), the run is over with result failure, and neither
\* STARTUP_HOOK nor LAUNCH was entered and no host was launched.
C1_InstallFailureIsFatal ==
    InstallFailed =>
        /\ pc = "done"
        /\ success = "False"
        /\ ~Entered("STARTUP_HOOK")
        /\ ~Entered("LAUNCH")
        /\ "LAUNCHED" \notin running

\* C1 witness: UNINSTALL reported success, INSTALL then failed
C1_Witness ==
    /\ outcome["UNINSTALL"] = "exit0"
    /\ outcome["INSTALL"] = "nonzero"
    /\ pc = "done"

\* C2: a run that ended after a failed UNINSTALL (non-zero exit, timeout, or
\* the host could not be run) still went through INSTALL, and its result is
\* success exactly when INSTALL exited with code 0: the UNINSTALL outcome does
\* not change the overall outcome.
C2_UninstallNeverFatal ==
    (pc = "done" /\ UninstallFailed) =>
        /\ Entered("INSTALL")
        /\ (outcome["INSTALL"] = "exit0" => success = "True" /\ exit_code = "0")
        /\ (success = "True" <=> outcome["INSTALL"] = "exit0")

\* C2 witness: UNINSTALL exited non-zero, INSTALL succeeded, the run succeeded
C2_Witness ==
    /\ pc = "done"
    /\ outcome["UNINSTALL"] = "nonzero"
    /\ outcome["INSTALL"] = "exit0"
    /\ success = "True"

\* C3: the stages entered so far are always an initial part of KILL,
\* UNINSTALL, INSTALL, STARTUP_HOOK, LAUNCH (so each is entered at most once,
\* in this order, none again), and a headless host that is still running
\* belongs to the stage entered last.
C3_LinearOrder ==
    /\ Len(stages) <= Len(Stages)
    /\ \A i \in 1..Len(stages) : stages[i] = Stages[i]
    /\ \A s \in running \cap HostStages : s = stages[Len(stages)]

\* C3 witness: a run that went through all five stages
C3_Witness == pc = "done" /\ Len(stages) = Len(Stages)

\* C4: every run that located the host executable and is over has attempted
\* the INSTALL stage.
C4_InstallAlwaysAttempted ==
    (Terminal /\ blender_exe # "None") => Entered("INSTALL")

\* C5: once INSTALL succeeded the result never becomes failure, and a run
\* that is over after a successful INSTALL has result success and exit code 0,
\* whatever STARTUP_HOOK and LAUNCH did.
C5_LaterStagesNeverFatal ==
    outcome["INSTALL"] = "exit0" =>
        /\ success # "False"
        /\ pc = "done" => (success = "True" /\ exit_code = "0")

\* C5 witness: the startup hook timed out and the launch could not be spawned
C5_Witness ==
    /\ pc = "done"
    /\ outcome["STARTUP_HOOK"] = "timeout"
    /\ Printed("Could not launch Blender")
    /\ success = "True"

\* C6: a launch is attempted, and a launched host exists, only if --launch
\* was given and INSTALL exited with code 0 in this run; and the very step
\* that starts the host also ends the run (the host is not waited for).
C6_LaunchOnlyAfterInstall ==
    /\ [](Entered("LAUNCH") \/ "LAUNCHED" \in running
            => args.launch /\ outcome["INSTALL"] = "exit0")
    /\ [][("LAUNCHED" \notin running /\ "LAUNCHED" \in running')
            => (pc' = "done" /\ success' = "True")]_vars

\* C6 witness: the run is over while the launched host is still alive
C6_Witness == pc = "done" /\ "LAUNCHED" \in running

\* C7: at the end of main the exit code is 0 if an archive was made and
\* either --install was not given or INSTALL succeeded; it is 1 if no archive
\* was made (packaging or directory detection failed) and if INSTALL failed.
C7_ExitCode ==
    pc = "done" =>
        /\ (zip_path # "None" /\ (~args.install \/ outcome["INSTALL"] = "exit0"))
              => exit_code = "0"
        /\ zip_path = "None" => exit_code = "1"
        /\ InstallFailed => exit_code = "1"

\* C7 witness: an archive was made and the INSTALL stage timed out
C7_Witness ==
    /\ pc = "done"
    /\ zip_path # "None"
    /\ outcome["INSTALL"] = "timeout"
    /\ exit_code = "1"

\* C8, as stated: a non-zero exit only if no archive was made or INSTALL failed.
C8_Original ==
    (pc = "done" /\ exit_code # "0") => (zip_path = "None" \/ InstallFailed)

\* C8, amended: a run ends with a non-zero exit only if no archive was made,
\* the host executable was not found, INSTALL failed, or the tool was ended
\* by its own termination signal in KILL; no outcome of UNINSTALL,
\* STARTUP_HOOK or LAUNCH gives a non-zero exit.
C8_NonZeroExitCauses ==
    (Terminal /\ exit_code # "0") =>
        \/ zip_path = "None"
        \/ (args.install /\ blender_exe = "None" /\ stages = <<>>)
        \/ InstallFailed
        \/ (pc = "terminated" /\ stages = <<"KILL">>)

\* C8 witness: an archive was made, the host executable was not found, exit 1
C8_Witness ==
    /\ pc = "done"
    /\ zip_path # "None"
    /\ Printed("Blender executable not found!")
    /\ exit_code = "1"

\* C9: after a host stage that exited non-zero or timed out, whatever the
\* host wrote to stdout and to stderr in that stage has been printed.
C9_CapturedOutputEchoed ==
    \A s \in HostStages :
        (captured.stage = s /\ outcome[s] \in {"nonzero", "timeout"}) =>
            /\ captured.out => Printed("stdout:" \o s)
            /\ captured.err => Printed("stderr:" \o s)

\* what each host stage prints for a non-zero exit and for a timeout
NonZeroMessage(s) ==
    CASE s = "UNINSTALL" -> "Uninstall had warnings (this is usually OK)"
      [] s = "INSTALL" -> "Installation failed!"
      [] s = "STARTUP_HOOK" -> "Startup script installation had warnings"
TimeoutMessage(s) ==
    CASE s = "UNINSTALL" -> "Uninstall error (may not be installed): timeout"
      [] s = "INSTALL" -> "Installation timed out"
      [] s = "STARTUP_HOOK" -> "Could not install startup script: timeout"

\* C10: for every host stage a timeout prints the timeout message and not the
\* non-zero-exit message, a non-zero exit prints the non-zero-exit message
\* and not the timeout message, and the two messages differ; for INSTALL
\* both give result failure.
C10_TimeoutDistinguished ==
    /\ \A s \in HostStages :
        /\ NonZeroMessage(s) # TimeoutMessage(s)
        /\ outcome[s] = "timeout" =>
             Printed(TimeoutMessage(s)) /\ ~Printed(NonZeroMessage(s))
        /\ outcome[s] = "nonzero" =>
             Printed(NonZeroMessage(s)) /\ ~Printed(TimeoutMessage(s))
    /\ outcome["INSTALL"] \in {"timeout", "nonzero"} => success = "False"

\* C10 witness: the INSTALL stage timed out and the run is over
C10_Witness ==
    /\ pc = "done"
    /\ outcome["INSTALL"] = "timeout"
    /\ Printed("Installation timed out")

\* C11: the UNINSTALL stage is never entered after the reaper issued a
\* termination (a signal to a pid, the pkill sweep, or taskkill) without the
\* reaper's one-second pause having elapsed.
C11_PauseAfterTermination ==
    (Entered("UNINSTALL") /\ issued # {}) => slept

\* C12: once the KILL stage was entered, kill_blender_processes has returned
\* to its caller (True or False), whatever pgrep, os.kill, pkill or taskkill did.
C12_ReaperReturns ==
    Entered("KILL") => kill_result \in {"True", "False"}

\* C13: at most one headless host started by the tool is alive at any time,
\* and every step that enters a host stage finds none alive.
C13_HostStagesNeverOverlap ==
    /\ [](Cardinality(running \cap HostStages) <= 1)
    /\ [][\A s \in HostStages :
            (~Entered(s) /\ Entered(s)') => running \cap HostStages = {}]_vars

\* C13 witness: the INSTALL host is alive after the UNINSTALL host timed out
C13_Witness ==
    /\ outcome["UNINSTALL"] = "timeout"
    /\ running = {"INSTALL"}

\* C14: a termination was issued, a stage was entered or a host started by
\* the tool exists only if --install was given and create_addon_zip returned
\* an archive in this run.
C14_HostOnlyOnRequest ==
    (stages # <<>> \/ issued # {} \/ running # {} \/ blender_exe # "None")
        => (args.install /\ zip_path # "None")

\* C14 witness: --launch without --install ends with no host interaction
C14_Witness ==
    /\ pc = "done"
    /\ args.launch /\ ~args.install
    /\ zip_path # "None"
    /\ stages = <<>> /\ issued = {} /\ running = {}

\* ===================================================== function-level runs
\* UnitSpec applies one function of the tool to inputs drawn in UnitInit; the
\* variables of the run of main stay at rest.
AtRest ==
    /\ args = [addon_name |-> "None", addon_dir |-> "None",
               install |-> FALSE, launch |-> FALSE]
    /\ system = "Other"
    /\ pc = "unit"
    /\ addon_dir = "None"
    /\ addon_name = "None"
    /\ zip_path = "None"
    /\ blender_exe = "None"
    /\ stages = <<>>
    /\ outcome = [s \in HostStages |-> "none"]
    /\ captured = Result("None", NoCapture)
    /\ running = {}
    /\ issued = {}
    /\ killed_count = 0
    /\ slept = FALSE
    /\ kill_result = "None"
    /\ log = <<>>
    /\ success = "None"
    /\ exit_code = "None"

runVars == <<args, system, pc, addon_dir, addon_name, zip_path, blender_exe,
             stages, outcome, captured, running, issued, killed_count, slept,
             kill_result, log, success, exit_code>>

\* ----------------------------------------------- auto_detect_addon_dir
\* the cwd: whether its __init__.py contains bl_info, and how many of its
\* immediate subdirectories do, by whether their name starts with "."
DetectInputs ==
    [op : {"detect"}, cwd_is_addon : BOOLEAN,
     visible : 0..MaxSubdirs, hidden : 0..MaxSubdirs]

\* main, lines 629-636, with the directory omitted: auto_detect_addon_dir
\* sees only the subdirectories whose name does not start with "." (line 98)
AutoDetectUnit ==
    /\ unit_in.op = "detect"
    /\ unit_out = NoUnit
    /\ LET d == auto_detect_addon_dir(unit_in.cwd_is_addon, unit_in.visible) IN
       unit_out' = [op |-> "detect", dir |-> d,
                    msgs |-> AutoDetectMessages(unit_in.cwd_is_addon, unit_in.visible),
                    exit |-> IF d = "None" THEN "1" ELSE "None"]
    /\ UNCHANGED <<runVars, unit_in>>

\* ------------------------------------------------------ create_addon_zip
\* a file below the add-on directory: the directories leading to it, and its
\* name split where endswith() looks (".DS_Store" has an empty stem)
File(dirs, stem, ext) == [dirs |-> dirs, stem |-> stem, ext |-> ext]
InitFile == File(<<>>, "__init__", ".py")
FileUniverse ==
    {InitFile,
     File(<<>>, "mod", ".py"),
     File(<<>>, "mod", ".pyc"),
     File(<<>>, "", ".DS_Store"),
     File(<<"__pycache__">>, "a", ".py"),
     File(<<".git">>, "config", ""),
     File(<<"sub">>, "u", ".py"),
     File(<<"sub">>, "u", ".pyo"),
     File(<<"sub", "__pycache__">>, "b", ".py")}

\* the add-on directory as it is passed: ".", relative, absolute.  All three
\* denote a directory whose own name is my_addon.
DirForms == {<<>>, <<"my_addon">>, <<"/", "w", "my_addon">>}
RealName == "my_addon"

\* pathlib: Path(".").parent is Path("."), Path("/").parent is Path("/")
PathParent(p) ==
    IF p = <<>> \/ p = <<"/">> THEN p ELSE SubSeq(p, 1, Len(p) - 1)

\* lines 154-156: file_path.relative_to(addon_dir.parent), for a file of the
\* walk of dir: what is left of dir after its parent is taken off, then the file
ArcName(dir, f) ==
    LET keep == SubSeq(dir, Len(PathParent(dir)) + 1, Len(dir)) IN
    File(keep \o f.dirs, f.stem, f.ext)

\* line 147: directories os.walk does not descend into; line 151: suffixes
PrunedDirs == {"__pycache__", ".git"}
ExcludedSuffixes == {".pyc", ".pyo", ".DS_Store"}
Archived(f) ==
    /\ \A i \in 1..Len(f.dirs) : f.dirs[i] \notin PrunedDirs
    /\ f.ext \notin ExcludedSuffixes

\* lines 128-132: the archive is <name>.zip in addon_dir.parent
OutputZip(dir, name) == PathParent(dir) \o <<name \o ".zip">>

\* lines 143-158: ZipFile(output_zip, 'w') creates the archive file, then
\* os.walk lists the directory: an archive that lies in the add-on directory
\* itself is one of the files walked
Walked(dir, tree, name) ==
    IF OutputZip(dir, name) = dir \o <<name \o ".zip">>
    THEN tree \cup {File(<<>>, name, ".zip")}
    ELSE tree

\* what is at the output path: nothing, or an archive with its members
NoArchive == [present |-> FALSE, members |-> {}]
Archive(members) == [present |-> TRUE, members |-> members]
\* what create_addon_zip returns: None, or the output path
ReturnNone == [none |-> TRUE, path |-> <<>>]
ReturnPath(p) == [none |-> FALSE, path |-> p]

\* create_addon_zip, lines 116-162, on a directory that exists or not and
\* holds the files of tree, with old at the output path.  Returns the path
\* or None and leaves archive at the output path.
create_addon_zip_UnlinkFirst(exists, dir, tree, name, old) ==
    IF ~exists \/ InitFile \notin tree
    THEN [result |-> ReturnNone, archive |-> NoArchive]
    ELSE [result |-> ReturnPath(OutputZip(dir, name)),
          archive |-> Archive({ArcName(dir, f) :
                                 f \in {g \in Walked(dir, tree, name) : Archived(g)}})]

create_addon_zip_files(exists, dir, tree, name, old) ==
    IF ~exists THEN [result |-> ReturnNone, archive |-> old]
    ELSE IF InitFile \notin tree THEN [result |-> ReturnNone, archive |-> old]
    ELSE [result |-> ReturnPath(OutputZip(dir, name)),
          archive |-> Archive({ArcName(dir, f) :
                                 f \in {g \in Walked(dir, tree, name) : Archived(g)}})]

\* an archive found at the output path before the run
OldArchive == Archive({File(<<"my_addon">>, "stale", ".py")})

ZipInputs ==
    {i \in [op : {"zip"}, exists : BOOLEAN, dir : DirForms,
            tree : SUBSET FileUniverse, name : {"my_tool"},
            old : {NoArchive, OldArchive}] :
        ~i.exists => i.tree = {}}

CreateAddonZipUnit ==
    /\ unit_in.op = "zip"
    /\ unit_out = NoUnit
    /\ LET r == create_addon_zip_files(unit_in.exists, unit_in.dir, unit_in.tree,
                                       unit_in.name, unit_in.old) IN
       unit_out' = [op |-> "zip", result |-> r.result, archive |-> r.archive]
    /\ UNCHANGED <<runVars, unit_in>>

\* --------------------------------------- detect_addon_name_from_bl_info
\* characters of a manifest name: a capital, a small letter, space, hyphen,
\* and a quote character (' or ")
Chars == {"M", "t", " ", "-", "'"}
NameValues == UNION {[1..n -> Chars] : n \in 1..MaxNameLen}

\* line 73: name.lower().replace(' ', '_').replace('-', '_')
NormalizeChar(c) ==
    IF c = "M" THEN "m"
    ELSE IF c = " " \/ c = "-" THEN "_"
    ELSE c
Normalize(v) == [i \in 1..Len(v) |-> NormalizeChar(v[i])]

\* the entries of the bl_info literal, in order: "name" is the name entry,
\* "brace" an entry whose text holds a closing brace (a nested dictionary or
\* set, a brace inside a string), "other" any other entry
EntryKinds == {"name", "other", "brace"}
Manifests == UNION {[1..n -> EntryKinds] : n \in 0..MaxEntries}

\* line 65, bl_info\s*=\s*\{([^}]+)\}: group 1 ends at the first closing brace
RECURSIVE BeforeBrace(_)
BeforeBrace(entries) ==
    IF entries = <<>> \/ Head(entries) = "brace" THEN <<>>
    ELSE <<Head(entries)>> \o BeforeBrace(Tail(entries))

\* line 69, ['"]name['"]\s*:\s*['"]([^'"]+)['"]: group 1 is the value up to
\* its first quote character, and must not be empty
RECURSIVE QuoteFree(_)
QuoteFree(v) ==
    IF v = <<>> \/ Head(v) = "'" THEN <<>>
    ELSE <<Head(v)>> \o QuoteFree(Tail(v))

\* the directory's base name, Path(addon_dir).name
DirBase == <<"my_addon">>

\* detect_addon_name_from_bl_info, lines 53-79, on an __init__.py that is
\* "absent", "unreadable", has no bl_info = {...} ("nodict") or has one
\* ("dict") with these entries and this value of the name entry
NameNone == [none |-> TRUE, name |-> <<>>]
NameOf(n) == [none |-> FALSE, name |-> n]
detect_name(init, entries, value) ==
    IF init \in {"absent", "unreadable"} THEN NameNone
    ELSE IF init = "dict"
            /\ \E i \in 1..Len(BeforeBrace(entries)) : entries[i] = "name"
            /\ QuoteFree(value) # <<>>
    THEN NameOf(Normalize(QuoteFree(value)))
    ELSE NameOf(DirBase)

\* main, lines 643-651, without --addon-name: None falls back to the
\* directory's base name
main_addon_name(init, entries, value) ==
    LET n == detect_name(init, entries, value) IN
    IF n.none THEN DirBase ELSE n.name

NameInputs ==
    [op : {"name"}, init : {"absent", "unreadable", "nodict", "dict"},
     entries : Manifests, value : NameValues]

DetectNameUnit ==
    /\ unit_in.op = "name"
    /\ unit_out = NoUnit
    /\ unit_out' = [op |-> "name",
                    name |-> main_addon_name(unit_in.init, unit_in.entries,
                                             unit_in.value)]
    /\ UNCHANGED <<runVars, unit_in>>

\* ------------------------------------------------- the startup hook
\* the host as the hook sees it: whether the add-on's module is among
\* addon_utils.modules(), whether it is in preferences.addons, whether the
\* saved preferences list it, and how many load_post handlers the hook has
\* registered
Hosts == [installed : BOOLEAN, enabled : BOOLEAN, saved : BOOLEAN,
          handlers : {0}]
\* which host calls of one execution raise an Exception when reached:
\* reading preferences.addons (line 358), addon_utils.modules() (363),
\* addon_utils.enable (367), wm.save_userpref (371)
HookFaults == [prefs : BOOLEAN, modules : BOOLEAN, enable : BOOLEAN,
               save : BOOLEAN]

HookEnd(h, console, calls, errors) ==
    [host |-> h, console |-> console, calls |-> calls, errors |-> errors,
     raised |-> FALSE]

\* auto_enable_addon with the failure of addon_utils.enable silenced
auto_enable_addon_Silent(h, f) ==
    IF f.prefs THEN HookEnd(h, <<>>, <<>>, <<"prefs">>)
    ELSE IF h.enabled THEN HookEnd(h, <<>>, <<>>, <<>>)
    ELSE IF f.modules THEN HookEnd(h, <<>>, <<>>, <<"modules">>)
    ELSE IF ~h.installed THEN HookEnd(h, <<>>, <<>>, <<>>)
    ELSE IF f.enable
    THEN HookEnd(h, <<>>, <<"enable_persistent">>, <<"enable">>)
    ELSE HookEnd([h EXCEPT !.enabled = TRUE,
                           !.saved = IF f.save THEN @ ELSE TRUE],
                 <<"Auto-enabled">>,
                 <<"enable_persistent", "save_userpref">>,
                 IF f.save THEN <<"save">> ELSE <<>>)

\* auto_enable_addon of the template, lines 352-379
auto_enable_addon(h, f) ==
    \* 356-358, 377-379: an error while reading the enabled list is swallowed
    IF f.prefs THEN HookEnd(h, <<>>, <<>>, <<"prefs">>)
    \* 359-360: already enabled
    ELSE IF h.enabled THEN HookEnd(h, <<>>, <<>>, <<>>)
    \* 363, 377-379
    ELSE IF f.modules THEN HookEnd(h, <<>>, <<>>, <<"modules">>)
    \* 364, 376: not installed
    ELSE IF ~h.installed THEN HookEnd(h, <<>>, <<>>, <<>>)
    \* 367, 374-375: the failure to enable is printed
    ELSE IF f.enable
    THEN HookEnd(h, <<"Could not auto-enable">>, <<"enable_persistent">>,
                 <<"enable">>)
    \* 367-373: enabled, then save_userpref with its errors swallowed
    ELSE HookEnd([h EXCEPT !.enabled = TRUE,
                           !.saved = IF f.save THEN @ ELSE TRUE],
                 <<"Auto-enabled">>,
                 <<"enable_persistent", "save_userpref">>,
                 IF f.save THEN <<"save">> ELSE <<>>)

\* one execution of the hook file, lines 381-393: register the load_post
\* handler, then call auto_enable_addon inside try/except
startup_script(h, f) ==
    auto_enable_addon([h EXCEPT !.handlers = @ + 1], f)

HookInputs == [op : {"hook"}, host : Hosts, first : HookFaults,
               second : HookFaults]

\* the host executes the hook, and executes it again
StartupHookUnit ==
    /\ unit_in.op = "hook"
    /\ unit_out = NoUnit
    /\ LET once == startup_script(unit_in.host, unit_in.first)
           twice == startup_script(once.host, unit_in.second)
       IN unit_out' = [op |-> "hook", once |-> once, twice |-> twice]
    /\ UNCHANGED <<runVars, unit_in>>

\* ------------------------------------------- the INSTALL inline script
\* what the host meets while running the script: the install operator
\* (line 493), addon_utils.enable (505) and save_userpref (512) succeed or
\* raise; the enabled list (519-520) holds the add-on, does not, or cannot
\* be read
ScriptFaults == [install : {"ok", "raise"}, enable : {"ok", "raise"},
                 save : {"ok", "raise"},
                 verify : {"listed", "unlisted", "raise"}]

EnableLine(f) ==
    IF f.enable = "ok" THEN "Add-on enabled using addon_utils (persistent)"
    ELSE "Warning: addon_utils enable failed"
SaveLine(f) ==
    IF f.save = "ok" THEN "Preferences saved"
    ELSE "Warning: Could not save preferences"
VerifyLines(f) ==
    IF f.verify = "listed" THEN <<"add-on installed and enabled!">>
    ELSE IF f.verify = "unlisted"
    THEN <<"Add-on installed but not in enabled list",
           "The add-on should be enabled when you open Blender.">>
    ELSE <<"Could not verify enable status",
           "The add-on should be enabled when you open Blender.">>

ScriptEnd(code, out) == [code |-> code, out |-> out]

\* the inline script with a failed enable step ending the host with code 1
install_script_EnableFatal(zipExists, f) ==
    IF ~zipExists THEN ScriptEnd("nonzero", <<"Error: ZIP file not found">>)
    ELSE IF f.install = "raise"
    THEN ScriptEnd("nonzero", <<"Installing add-on from:", "Error installing">>)
    ELSE IF f.enable = "raise"
    THEN ScriptEnd("nonzero", <<"Installing add-on from:",
                                "Add-on installed successfully", EnableLine(f)>>)
    ELSE ScriptEnd("exit0",
                   <<"Installing add-on from:", "Add-on installed successfully",
                     EnableLine(f), SaveLine(f)>> \o VerifyLines(f))

\* the inline script, lines 478-528, run to its end by the host
install_script(zipExists, f) ==
    \* 485-487
    IF ~zipExists THEN ScriptEnd("nonzero", <<"Error: ZIP file not found">>)
    \* 492-499
    ELSE IF f.install = "raise"
    THEN ScriptEnd("nonzero", <<"Installing add-on from:", "Error installing">>)
    \* 501-527: every later step catches its own exception and goes on
    ELSE ScriptEnd("exit0",
                   <<"Installing add-on from:", "Add-on installed successfully",
                     EnableLine(f), SaveLine(f)>> \o VerifyLines(f))

InstallInputs == [op : {"install"}, zip_exists : BOOLEAN, faults : ScriptFaults]

\* auto_install_to_blender, lines 533-581, and main, lines 665-668, for a
\* host that runs the script to its end: the stage's verdict and the run's
\* exit code when the launch is not requested
InstallScriptUnit ==
    /\ unit_in.op = "install"
    /\ unit_out = NoUnit
    /\ LET run == install_script(unit_in.zip_exists, unit_in.faults)
           ok == IF AfterInstall(run.code) = "done" THEN "False" ELSE "True"
       IN unit_out' = [op |-> "install", code |-> run.code, out |-> run.out,
                       success |-> ok, exit_code |-> main_exit(ok)]
    /\ UNCHANGED <<runVars, unit_in>>

\* ------------------------------ the module name and the archive's folder
\* a name of characters as the string it is
RECURSIVE Join(_)
Join(v) == IF v = <<>> THEN "" ELSE Head(v) \o Join(Tail(v))

\* Path(addon_dir).name, lines 76 and 649: the last component, "" for "."
BaseName(dir) == IF dir = <<>> THEN "" ELSE dir[Len(dir)]

\* main, lines 643-651: --addon-name if given, else the detected name, else
\* the directory's base name
main_name(arg, dir, init, entries, value) ==
    IF arg # "None" THEN arg
    ELSE LET n == detect_name(init, entries, value) IN
         IF n.none \/ n.name = DirBase THEN BaseName(dir) ELSE Join(n.name)

\* the top-level entries of an archive: the first folder of each member, ""
\* for a member that lies in no folder
TopLevel(members) ==
    {IF m.dirs = <<>> THEN "" ELSE m.dirs[1] : m \in members}

\* runs that reach INSTALL: the directory holds a readable __init__.py, with
\* or without a bl_info literal, and the name is given or not
ModuleTree == {InitFile, File(<<"sub">>, "u", ".py")}
ModuleInputs ==
    [op : {"module"}, dir : DirForms, arg : {"my_addon", "my_tool"},
     init : {"nodict"}, entries : {<<>>}, value : {<<"M">>}]
    \cup [op : {"module"}, dir : DirForms, arg : {"None"},
          init : {"nodict", "dict"}, entries : Manifests, value : NameValues]

\* main, lines 643-668: the name, the archive made under that name, and the
\* module the UNINSTALL (259), INSTALL (505) and hook (354) scripts are
\* generated for
ModuleNameUnit ==
    /\ unit_in.op = "module"
    /\ unit_out = NoUnit
    /\ LET name == main_name(unit_in.arg, unit_in.dir, unit_in.init,
                             unit_in.entries, unit_in.value)
           zip == create_addon_zip_files(TRUE, unit_in.dir, ModuleTree, name,
                                         NoArchive)
       IN unit_out' = [op |-> "module", module |-> name,
                       zipped |-> ~zip.result.none,
                       top |-> TopLevel(zip.archive.members)]
    /\ UNCHANGED <<runVars, unit_in>>

\* ------------------------------------------------------------- UnitSpec
UnitInputs ==
    DetectInputs \cup ZipInputs \cup NameInputs \cup HookInputs
        \cup InstallInputs \cup ModuleInputs

UnitInit ==
    /\ AtRest
    /\ unit_in \in UnitInputs
    /\ unit_out = NoUnit

UnitNext ==
    \/ AutoDetectUnit
    \/ CreateAddonZipUnit
    \/ DetectNameUnit
    \/ StartupHookUnit
    \/ InstallScriptUnit
    \/ ModuleNameUnit

UnitSpec == UnitInit /\ [][UnitNext]_vars

\* C15, as stated: detection succeeds exactly when the cwd and its immediate
\* subdirectories hold exactly one candidate; two or more candidates fail as
\* ambiguous and none fails as not found, both with exit code 1.
C15_Original ==
    unit_out.op = "detect" =>
        LET candidates == (IF unit_in.cwd_is_addon THEN 1 ELSE 0)
                          + unit_in.visible + unit_in.hidden IN
        /\ unit_out.dir # "None" <=> candidates = 1
        /\ candidates # 1 => unit_out.exit = "1"

\* C15, amended: a qualifying cwd is taken whatever its subdirectories hold;
\* otherwise detection succeeds exactly when one subdirectory whose name does
\* not start with "." qualifies; with two or more of them the run fails as
\* ambiguous, with none as not found, both with exit code 1.
C15_AutoDetect ==
    unit_out.op = "detect" =>
        /\ unit_in.cwd_is_addon => unit_out.dir = "cwd"
        /\ (~unit_in.cwd_is_addon /\ unit_in.visible = 1) => unit_out.dir = "sub"
        /\ (~unit_in.cwd_is_addon /\ unit_in.visible # 1) =>
              /\ unit_out.dir = "None"
              /\ unit_out.exit = "1"
              /\ unit_in.visible > 1 <=>
                    "Multiple add-on directories found" \in Range(unit_out.msgs)
        /\ unit_out.dir # "None" => unit_out.exit = "None" /\ unit_out.msgs = <<>>

\* C15 witness: the cwd qualifies and so does a subdirectory; the cwd is taken
C15_Witness ==
    /\ unit_out.op = "detect"
    /\ unit_in.cwd_is_addon /\ unit_in.visible = 1
    /\ unit_out.dir = "cwd"

\* C16: packaging an existing directory that has __init__.py returns a path
\* and leaves an archive whose members are exactly the directory's files
\* outside __pycache__ and .git and without excluded suffix, each under the
\* directory's own name (its path relative to the directory's parent),
\* whatever was at the output path before.
C16_ArchiveMembers ==
    (unit_out.op = "zip" /\ unit_in.exists /\ InitFile \in unit_in.tree) =>
        /\ ~unit_out.result.none
        /\ unit_out.archive =
              Archive({File(<<RealName>> \o f.dirs, f.stem, f.ext) :
                         f \in {g \in unit_in.tree : Archived(g)}})

\* C17: packaging a directory that does not exist or has no __init__.py
\* returns None and leaves the output path as it was: no archive appears and
\* an archive found there keeps its members.
C17_FailedPackagingTouchesNothing ==
    (unit_out.op = "zip" /\ (~unit_in.exists \/ InitFile \notin unit_in.tree)) =>
        /\ unit_out.result.none
        /\ unit_out.archive = unit_in.old

\* C17 witness: no __init__.py among the files, an older archive is in place
C17_Witness ==
    /\ unit_out.op = "zip"
    /\ unit_in.exists /\ unit_in.tree # {} /\ InitFile \notin unit_in.tree
    /\ unit_in.old.present
    /\ unit_out.archive = unit_in.old

\* C18: without --addon-name the name used is the whole manifest name,
\* lowercased with every space and hyphen turned into an underscore, whenever
\* __init__.py has a bl_info dictionary literal with a name entry, and the
\* directory's base name otherwise.
C18_NameFromManifest ==
    unit_out.op = "name" =>
        IF /\ unit_in.init = "dict"
           /\ \E i \in 1..Len(unit_in.entries) : unit_in.entries[i] = "name"
        THEN unit_out.name = Normalize(unit_in.value)
        ELSE unit_out.name = DirBase

\* what the hook can change about the add-on: enabled, and saved as enabled
Ext(h) == <<h.enabled, h.saved>>

C20_InstallSuccess ==
    unit_out.op = "install" =>
        LET f == unit_in.faults IN
        /\ (unit_out.success = "True")
               <=> (unit_in.zip_exists /\ f.install = "ok")
        /\ (unit_out.exit_code = "0") <=> (unit_out.success = "True")
        /\ (unit_in.zip_exists /\ f.install = "ok") =>
               /\ f.enable = "raise" =>
                      "Warning: addon_utils enable failed"
                          \in Range(unit_out.out)
               /\ f.save = "raise" =>
                      "Warning: Could not save preferences"
                          \in Range(unit_out.out)
               /\ f.verify = "unlisted" =>
                      "Add-on installed but not in enabled list"
                          \in Range(unit_out.out)
               /\ f.verify = "raise" =>
                      "Could not verify enable status" \in Range(unit_out.out)

C20_Witness ==
    /\ unit_out.op = "install"
    /\ unit_in.zip_exists /\ unit_in.faults.install = "ok"
    /\ unit_in.faults.enable = "raise" /\ unit_in.faults.save = "raise"
    /\ unit_in.faults.verify = "raise"
    /\ unit_out.success = "True" /\ unit_out.exit_code = "0"

\* the lookup of the host executable has been made and found nothing
HostNotLocated ==
    /\ Printed("Blender executable not found!")
    /\ blender_exe = "None"

\* C21: once the host executable was not located, the run is over with
\* result failure and exit code 1 although the archive exists, and no stage
\* was entered: no termination was issued to any process, no headless host
\* was started, no startup hook was installed and no host was launched.
C21_NotLocatedNoStages ==
    HostNotLocated =>
        /\ pc = "done"
        /\ success = "False" /\ exit_code = "1"
        /\ zip_path # "None"
        /\ stages = <<>>
        /\ issued = {} /\ killed_count = 0 /\ kill_result = "None"
        /\ running = {}
        /\ \A st \in HostStages : outcome[st] = "none"

C21_Witness ==
    /\ HostNotLocated
    /\ pc = "done" /\ args.install /\ args.launch
    /\ zip_path # "None" /\ exit_code = "1"
    /\ stages = <<>>

\* C22: in a run that reaches INSTALL, the module name the INSTALL, UNINSTALL
\* and hook scripts are generated for is the name of the one top-level
\* folder of the archive, whatever the name (given or detected) and the
\* directory.
C22_ModuleIsTopFolder ==
    (unit_out.op = "module" /\ unit_out.zipped) =>
        unit_out.top = {unit_out.module}

====
